---- MODULE Spec2Model ----
(***************************************************************************)
(* A model of the face-synthesis Pipeline of src/pipeline.py: the scene    *)
(* parameter store (initSceneParameters), the render entry point with its  *)
(* ray-traced and vertex-based paths (render, computeVertexColor,          *)
(* computeVertexImage, perspectiveProjMatrix) and the landmark loss        *)
(* (landmarkLoss).                                                         *)
(*                                                                         *)
(* Numbers.  Tensor entries are real numbers in the program.  The model    *)
(* computes with exact rationals <<p, q>> (q > 0 in lowest terms; q = 0    *)
(* stands for the non-finite values: <<1,0>> = +inf, <<-1,0>> = -inf,      *)
(* <<0,0>> = NaN), so float32 rounding is not modelled.  Roughness values  *)
(* span 1e-20 .. 10 and are kept as decimals <<m, e>> = m * 10^e.          *)
(* Tensors are records [shape |-> <<d1, ...>>, data |-> nested sequences], *)
(* indexed from 1.                                                         *)
(***************************************************************************)
EXTENDS Integers, Sequences, FiniteSets, TLC

(***************************************************************************)
(* Bounds of the model.                                                    *)
(***************************************************************************)
MaxBatch == 2          \* largest batch size n
NumVertices == 2       \* V, the vertex count fixed by the mesh topology
TexRes == 2            \* config.textureResolution
NumLandmarks == 2      \* K, the length of the landmark association table
ShBands == 2           \* config.bands
EnvMapRes == 2         \* config.envMapRes
ShapeBasisSize == 2    \* morphableModel.shapeBasisSize
AlbedoBasisSize == 3   \* morphableModel.albedoBasisSize
ExpBasisSize == 4      \* morphableModel.expBasisSize

(***************************************************************************)
(* Program constants.                                                      *)
(***************************************************************************)
Width == 256
Height == 256
Far == 100
NearNum == 1           \* near = 0.1 = NearNum / NearDen
NearDen == 10

(***************************************************************************)
(* Exact rational arithmetic with IEEE-style non-finite values.           *)
(***************************************************************************)
Abs(i) == IF i < 0 THEN -i ELSE i

Sign(i) == IF i < 0 THEN -1 ELSE IF i > 0 THEN 1 ELSE 0

RECURSIVE Gcd(_, _)
Gcd(a, b) == IF b = 0 THEN a ELSE Gcd(b, a % b)

Norm(p, q) ==
    IF q = 0 THEN <<Sign(p), 0>>
    ELSE LET g == Gcd(Abs(p), Abs(q))
             s == Sign(q)
         IN  <<(s * p) \div g, (s * q) \div g>>

NaN == <<0, 0>>

ToRat(i) == <<i, 1>>

IsFinite(a) == a[2] # 0

RatAdd(a, b) ==
    IF a[2] # 0 /\ b[2] # 0 THEN Norm(a[1] * b[2] + b[1] * a[2], a[2] * b[2])
    ELSE IF a[2] # 0 THEN b
    ELSE IF b[2] # 0 THEN a
    ELSE IF a = b THEN a ELSE NaN

RatNeg(a) == <<-a[1], a[2]>>

RatSub(a, b) == RatAdd(a, RatNeg(b))

RatMul(a, b) ==
    IF a[2] # 0 /\ b[2] # 0 THEN Norm(a[1] * b[1], a[2] * b[2])
    ELSE <<Sign(a[1]) * Sign(b[1]), 0>>

RatDiv(a, b) ==
    IF a[2] # 0 /\ b[2] # 0 THEN Norm(a[1] * b[2], a[2] * b[1])
    ELSE IF a[2] # 0 THEN (IF b[1] = 0 THEN NaN ELSE <<0, 1>>)
    ELSE IF b[2] # 0 THEN <<a[1] * (IF b[1] < 0 THEN -1 ELSE 1), 0>>
    ELSE NaN

\* torch.abs(x) <= 1.0: false for NaN and for the infinities
AbsLeqOne(a) == a[2] # 0 /\ Abs(a[1]) <= a[2]

\* int(x) of a finite x: truncation toward zero
Trunc(a) == IF a[1] >= 0 THEN a[1] \div a[2] ELSE -((-a[1]) \div a[2])

RECURSIVE SumSeq(_)
SumSeq(s) == IF s = <<>> THEN 0 ELSE Head(s) + SumSeq(Tail(s))

RECURSIVE RatSumSeq(_)
RatSumSeq(s) == IF s = <<>> THEN ToRat(0) ELSE RatAdd(Head(s), RatSumSeq(Tail(s)))

(***************************************************************************)
(* Decimals m * 10^e, used for roughness: the clamp bounds 1e-20 and 10.0  *)
(* differ by 21 orders of magnitude.  Mantissas are below 100 in magnitude. *)
(***************************************************************************)
RECURSIVE Pow10(_)
Pow10(k) == IF k <= 0 THEN 1 ELSE 10 * Pow10(k - 1)

\* -1, 0, 1 as a is below, equal to, above b
DecCmp(a, b) ==
    LET d == a[2] - b[2]
    IN  IF a[1] = 0 \/ b[1] = 0 THEN Sign(Sign(a[1]) - Sign(b[1]))
        ELSE IF d > 6 THEN Sign(a[1])
        ELSE IF d < -6 THEN -Sign(b[1])
        ELSE LET x == IF d > 0 THEN a[1] * Pow10(d) ELSE a[1]
                 y == IF d < 0 THEN b[1] * Pow10(-d) ELSE b[1]
             IN  Sign(x - y)

DecLess(a, b) == DecCmp(a, b) < 0

\* torch.clamp(x, lo, hi) = min(max(x, lo), hi)
clamp(x, lo, hi) ==
    LET m == IF DecLess(x, lo) THEN lo ELSE x
    IN  IF DecLess(hi, m) THEN hi ELSE m

RoughnessMin == <<1, -20>>     \* 1e-20
RoughnessMax == <<10, 0>>      \* 10.0
InitRoughness == <<4, -1>>     \* 0.4

(***************************************************************************)
(* Tensor helpers.                                                         *)
(***************************************************************************)
Tensor(shape, data) == [shape |-> shape, data |-> data]

\* tensor.dim()
Dim(t) == Len(t.shape)

\* tensor.shape[-1]
LastDim(t) == t.shape[Len(t.shape)]

\* torch.zeros / c * torch.ones of a [n, m] matrix: only the shape matters below
Filled2(n, m, v) == Tensor(<<n, m>>, [b \in 1..n |-> [j \in 1..m |-> v]])

(***************************************************************************)
(* State.                                                                  *)
(*   config          the configuration object handed to the constructor   *)
(*   sharedIdentity  Pipeline.sharedIdentity                               *)
(*   params          the scene parameters vShapeCoeff .. vRoughness; the   *)
(*                   attributes do not exist before initSceneParameters    *)
(*                   (allocated = FALSE)                                   *)
(*   last            the call whose result the caller holds: its inputs,   *)
(*                   the calls it made in order, and its outcome; NoCall   *)
(*                   between calls (the pipeline is used by one thread,    *)
(*                   one call at a time)                                   *)
(***************************************************************************)
VARIABLES config, sharedIdentity, params, last

vars == <<config, sharedIdentity, params, last>>

\* config.camFocalLength values tried (pixels; positive)
CamFocalLengths == {1, 2}

Configs == [camFocalLength : CamFocalLengths, textureResolution : {TexRes},
            bands : {ShBands}, envMapRes : {EnvMapRes}]

\* morphableModel.getTextureResolution()
getTextureResolution == config.textureResolution

Unallocated ==
    [allocated |-> FALSE, n |-> 0,
     vShapeCoeff |-> <<>>, vAlbedoCoeff |-> <<>>, vExpCoeff |-> <<>>,
     vRotation |-> <<>>, vTranslation |-> <<>>, vFocals |-> <<>>,
     vShCoeffs |-> <<>>, vRoughness |-> <<>>]

\* vShCoeffs after lines 69-73, in tenths: row 0 is 0.5 and row 2 is -0.5 in
\* every channel, every other row is 0
InitShRow(j) == IF j = 1 THEN <<5, 5, 5>> ELSE IF j = 3 THEN <<-5, -5, -5>> ELSE <<0, 0, 0>>

\* the parameters initSceneParameters(n, sharedIdentity) allocates, n >= 1
\* a variant of the allocation that gives every frame its own identity,
\* whatever the flag
AllocatedParamsPerFrame(n, shared) ==
    [allocated |-> TRUE, n |-> n,
     vShapeCoeff |-> Filled2(n, ShapeBasisSize, 0),
     vAlbedoCoeff |-> Filled2(n, AlbedoBasisSize, 0),
     vExpCoeff |-> Filled2(n, ExpBasisSize, 0),
     vRotation |-> Tensor(<<n, 3>>, [b \in 1..n |-> <<314, 0, 0>>]),
     vTranslation |-> Tensor(<<n, 3>>, [b \in 1..n |-> <<0, 0, 50000>>]),
     vFocals |-> Tensor(<<n>>, [b \in 1..n |-> config.camFocalLength]),
     vShCoeffs |-> Tensor(<<n, ShBands * ShBands, 3>>,
                          [b \in 1..n |-> [j \in 1..(ShBands * ShBands) |-> InitShRow(j)]]),
     vRoughness |-> Tensor(<<n, getTextureResolution, getTextureResolution, 1>>,
                           [b \in 1..n |-> [r \in 1..getTextureResolution |->
                               [c \in 1..getTextureResolution |-> <<InitRoughness>>]]])]

AllocatedParams(n, shared) ==
    LET nShape == IF shared = TRUE THEN 1 ELSE n
        texRes == getTextureResolution
    IN  [allocated |-> TRUE, n |-> n,
         vShapeCoeff |-> Filled2(nShape, ShapeBasisSize, 0),
         vAlbedoCoeff |-> Filled2(nShape, AlbedoBasisSize, 0),
         vExpCoeff |-> Filled2(n, ExpBasisSize, 0),
         \* 3.14 and 500, in hundredths
         vRotation |-> Tensor(<<n, 3>>, [b \in 1..n |-> <<314, 0, 0>>]),
         vTranslation |-> Tensor(<<n, 3>>, [b \in 1..n |-> <<0, 0, 50000>>]),
         vFocals |-> Tensor(<<n>>, [b \in 1..n |-> config.camFocalLength]),
         vShCoeffs |-> Tensor(<<n, ShBands * ShBands, 3>>,
                              [b \in 1..n |-> [j \in 1..(ShBands * ShBands) |-> InitShRow(j)]]),
         vRoughness |-> Tensor(<<nShape, texRes, texRes, 1>>,
                               [b \in 1..nShape |-> [r \in 1..texRes |->
                                   [c \in 1..texRes |-> <<InitRoughness>>]]])]

(***************************************************************************)
(* Spherical-harmonics shading of the vertices (computeVertexColor).       *)
(***************************************************************************)
\* self.sh.a and self.sh.c, the per-band normalisation constants of the real
\* SH basis (pi, 2pi/sqrt 3, 2pi/sqrt 8 and 1/sqrt(4pi), sqrt 3/sqrt(4pi),
\* 3 sqrt 5/sqrt(12pi)), as rational approximations
sh_a == << <<3, 1>>, <<7, 2>>, <<9, 4>> >>

sh_c == << <<1, 4>>, <<1, 2>>, <<1, 1>> >>

\* np.sqrt(3.), as a rational approximation
Sqrt3 == <<7, 4>>

\* gamma after lines 203-213: 0.1 everywhere plus init_lit = 0.8 on the first
\* coefficient of every channel; entry [k, c] of the permuted [B, 9, 3] tensor
gamma(k, c) == IF k = 1 THEN RatAdd(<<1, 10>>, <<4, 5>>) ELSE <<1, 10>>

\* the nine basis values Y[..., k] at one normal nrm = <<x, y, z>> (lines 227-237)
shBasis(nrm) ==
    LET x == ToRat(nrm[1])
        y == ToRat(nrm[2])
        z == ToRat(nrm[3])
        ac0 == RatMul(sh_a[1], sh_c[1])
        ac1 == RatMul(sh_a[2], sh_c[2])
        ac2 == RatMul(sh_a[3], sh_c[3])
        half == <<1, 2>>
    IN  << ac0,
           RatMul(RatNeg(ac1), y),
           RatMul(ac1, z),
           RatMul(RatNeg(ac1), x),
           RatMul(RatMul(ac2, x), y),
           RatMul(RatMul(RatNeg(ac2), y), z),
           RatMul(RatDiv(RatMul(half, ac2), Sqrt3),
                  RatSub(RatMul(ToRat(3), RatMul(z, z)), ToRat(1))),
           RatMul(RatMul(RatNeg(ac2), x), z),
           RatMul(RatMul(half, ac2), RatSub(RatMul(x, x), RatMul(y, y))) >>

\* Y @ gamma[..., c:c+1] at one normal (lines 238-240)
shLight(nrm, c) ==
    LET Y == shBasis(nrm)
    IN  RatSumSeq([k \in 1..9 |-> RatMul(Y[k], gamma(k, c))])

\* torch.nn.functional.interpolate(t, size=(N, 3), mode='bilinear') of a
\* [nd, T, T, 3] texture read as [batch, channels, height, width]: the third
\* axis is resampled from T to N entries (align_corners = False), the last
\* axis keeps its 3 entries.  Entry [d, r, v, ch] of the [nd, T, N, 3] result,
\* all indices from 1.
interpolate(t, N, d, r, v, ch) ==
    LET T == t.shape[3]
        row == t.data[d][r]
    IN  IF N = T THEN row[v][ch]
        ELSE LET srcRaw == RatSub(RatMul(Norm(T, N), <<2 * (v - 1) + 1, 2>>), <<1, 2>>)
                 src == IF srcRaw[1] < 0 THEN ToRat(0) ELSE srcRaw
                 h0 == Trunc(src)
                 h1 == IF h0 < T - 1 THEN h0 + 1 ELSE h0
                 l1 == RatSub(src, ToRat(h0))
                 l0 == RatSub(ToRat(1), l1)
             IN  RatAdd(RatMul(l0, row[h0 + 1][ch]), RatMul(l1, row[h1 + 1][ch]))

\* Pipeline.computeVertexColor(diffuseTexture, specularTexture,
\* roughnessTexture, normals): the SH coefficients are the local gamma, the
\* specular and roughness textures are not read.  The squeeze of line 249
\* leaves the [nd, T, N, 3] tensor as it is because T >= 2, so the product of
\* line 253 broadcasts [B, N, 3] against [nd, T, N, 3] and fails unless
\* B = 1 or B = T.
computeVertexColor(diffuseTexture, specularTexture, roughnessTexture, normals) ==
    LET B == normals.shape[1]
        N == normals.shape[2]
        nd == diffuseTexture.shape[1]
        T == diffuseTexture.shape[2]
    IN  IF B # 1 /\ B # T
        THEN [outcome |-> "raised", error |-> "RuntimeError: broadcast"]
        ELSE [outcome |-> "returned",
              value |-> Tensor(<<nd, T, N, 3>>,
                  [d \in 1..nd |-> [r \in 1..T |-> [v \in 1..N |-> [ch \in 1..3 |->
                      RatMul(shLight(normals.data[IF B = 1 THEN 1 ELSE r][v], ch),
                             interpolate(diffuseTexture, N, d, r, v, ch))]]]])]

(***************************************************************************)
(* The vertex-based image (computeVertexImage, perspectiveProjMatrix).     *)
(* An image is [shape, rgb, alpha]: rgb maps the pixels <<y, x>> whose RGB *)
(* value is not zero to that value (every other pixel of the buffer is     *)
(* zero), alpha is the value of the alpha channel at every pixel.          *)
(***************************************************************************)
Zero3 == <<ToRat(0), ToRat(0), ToRat(0)>>

AddRGB(p, q) == [ch \in 1..3 |-> RatAdd(p[ch], q[ch])]

\* image_data[y, x, :] of an image
Pixel(image, y, x) == IF <<y, x>> \in DOMAIN image.rgb THEN image.rgb[<<y, x>>] ELSE Zero3

\* line 261: fov = 360 * atan(width / (2 * focal)) / pi degrees.  The angle is
\* kept as the tangent of its half, width / (2 * focal).
fovOf(focal) == [tanHalf |-> Norm(Width, 2 * focal)]

\* Pipeline.perspectiveProjMatrix(fov, aspect_ratio, near, far):
\* f = 1 / tan(deg2rad(fov) / 2)
perspectiveProjMatrix(fov, aspect_ratio, near, far) ==
    LET f == RatDiv(ToRat(1), fov.tanHalf)
        zero == ToRat(0)
        depth == RatSub(far, near)
    IN  << <<RatDiv(f, aspect_ratio), zero, zero, zero>>,
           <<zero, f, zero, zero>>,
           <<zero, zero, RatDiv(far, depth), RatNeg(RatDiv(RatMul(far, near), depth))>>,
           <<zero, zero, ToRat(1), zero>> >>

\* projMatrix @ h for one homogeneous vertex h
matVec(M, h) == [i \in 1..4 |-> RatSumSeq([j \in 1..4 |-> RatMul(M[i][j], h[j])])]

\* lines 268-273: one camera-space vertex to normalised device coordinates
toClipSpace(projMatrix, vertex) ==
    LET h == <<ToRat(vertex[1]), ToRat(vertex[2]), ToRat(vertex[3]), ToRat(1)>>
        clip == matVec(projMatrix, h)
    IN  [k \in 1..3 |-> RatDiv(clip[k], clip[4])]

\* a variant of the frustum mask that tests the upper bound only
inFrustumUpperOnly(ndc) ==
    /\ IsFinite(ndc[1]) /\ ndc[1][1] <= ndc[1][2]
    /\ IsFinite(ndc[2]) /\ ndc[2][1] <= ndc[2][2]

\* lines 275-276: the frustum mask of one vertex
inFrustum(ndc) == AbsLeqOne(ndc[1]) /\ AbsLeqOne(ndc[2])

\* a variant of the screen mapping that scales without shifting by one
toScreenSpaceUnshifted(ndc) ==
    << RatMul(RatDiv(ndc[1], ToRat(2)), ToRat(Width)),
       RatMul(RatDiv(ndc[2], ToRat(2)), ToRat(Height)),
       ndc[3] >>

\* lines 280-282: normalised device coordinates to screen space
toScreenSpace(ndc) ==
    << RatMul(RatDiv(RatAdd(ndc[1], ToRat(1)), ToRat(2)), ToRat(Width)),
       RatMul(RatDiv(RatAdd(ndc[2], ToRat(1)), ToRat(2)), ToRat(Height)),
       ndc[3] >>

\* line 294: the pixel bounds test
inBounds(x, y) == 0 <= x /\ x < Width /\ 0 <= y /\ y < Height

\* a variant of the pixel update that overwrites instead of adding
accumulateOverwrite(rgb, y, x, color) ==
    LET p == <<y, x>>
    IN  IF p \in DOMAIN rgb THEN [rgb EXCEPT ![p] = color]
        ELSE rgb @@ (p :> color)

\* line 296: image_data[y, x, :] += color
accumulate(rgb, y, x, color) ==
    LET p == <<y, x>>
    IN  IF p \in DOMAIN rgb THEN [rgb EXCEPT ![p] = AddRGB(@, color)]
        ELSE rgb @@ (p :> AddRGB(Zero3, color))

\* lines 292-296: the loop over the vertices in screen space, from vertex i on
RECURSIVE splat(_, _, _, _)
splat(rgb, screen, colors, i) ==
    IF i > Len(screen) THEN rgb
    ELSE LET x == Trunc(screen[i][1])
             y == Trunc(screen[i][2])
         IN  splat(IF inBounds(x, y) THEN accumulate(rgb, y, x, colors[i]) ELSE rgb,
                   screen, colors, i + 1)

\* verticesColor.mean(dim=1) of a [nd, T, N, 3] tensor: entry [d, v]
meanOverRows(verticesColor, d, v) ==
    LET T == verticesColor.shape[2]
    IN  [ch \in 1..3 |->
            RatDiv(RatSumSeq([r \in 1..T |-> verticesColor.data[d][r][v][ch]]), ToRat(T))]

\* Pipeline.computeVertexImage(cameraVertices, verticesColor, debug), reading
\* self.vFocals; viewerOk is whether the point-cloud viewer of line 306
\* returns (it is asked only when debug is set).
computeVertexImage(vFocals, cameraVertices, verticesColor, debug, viewerOk) ==
    IF vFocals.shape[1] # 1
    THEN \* line 261: torch.tensor([t]) of a tensor t with several elements
         [outcome |-> "raised", error |-> "ValueError: fov", calls |-> <<>>]
    ELSE
    LET projMatrix == perspectiveProjMatrix(fovOf(vFocals.data[1]), Norm(Width, Height),
                                            <<NearNum, NearDen>>, ToRat(Far))
        B == cameraVertices.shape[1]
        V == cameraVertices.shape[2]
        nd == verticesColor.shape[1]
        N == verticesColor.shape[3]
        ndc == [b \in 1..B |-> [v \in 1..V |-> toClipSpace(projMatrix, cameraVertices.data[b][v])]]
        flat == [i \in 1..(B * V) |-> <<((i - 1) \div V) + 1, ((i - 1) % V) + 1>>]
        \* vertices_in_clip_space[mask]: the surviving <<b, v>> in row-major order
        kept == SelectSeq(flat, LAMBDA p : inFrustum(ndc[p[1]][p[2]]))
        screen == [i \in 1..Len(kept) |-> toScreenSpace(ndc[kept[i][1]][kept[i][2]])]
        \* lines 285-287: verticesColor.mean(dim=1).squeeze(0)[mask.squeeze(0)]
        rows == \/ B = 1 /\ nd = 1 /\ N = V
                \/ B >= 2 /\ nd = B /\ N = V
        \* the index is accepted but its entries are not RGB triples
        blocks == \/ B = 1 /\ nd >= 2 /\ nd = V
                  \/ B >= 2 /\ nd = 1 /\ B = N /\ V = 3
        colors == [i \in 1..Len(kept) |-> meanOverRows(verticesColor, kept[i][1], kept[i][2])]
        hit == \E i \in 1..Len(screen) : inBounds(Trunc(screen[i][1]), Trunc(screen[i][2]))
        acc == splat(<<>>, screen, colors, 1)
        image == [shape |-> <<1, Height, Width, 4>>,
                  rgb |-> [p \in {q \in DOMAIN acc : acc[q] # Zero3} |-> acc[p]],
                  alpha |-> ToRat(1)]
        debugCalls == IF debug THEN <<"computeNormals", "displayTensorColorAndNormals">> ELSE <<>>
    IN  IF ~rows /\ ~blocks
        THEN [outcome |-> "raised", error |-> "IndexError: mask", calls |-> <<>>]
        ELSE IF blocks /\ hit
        THEN [outcome |-> "raised", error |-> "color shape", calls |-> <<>>]
        ELSE IF debug /\ ~viewerOk
        THEN [outcome |-> "raised", error |-> "viewer", calls |-> debugCalls]
        ELSE [outcome |-> "returned", calls |-> debugCalls,
              image |-> IF blocks THEN [image EXCEPT !.rgb = <<>>] ELSE image]

(***************************************************************************)
(* Optional arguments: None is the empty sequence, a supplied value t is   *)
(* <<t>>.                                                                  *)
(***************************************************************************)
None == <<>>

Some(t) == <<t>>

\* one collaborator call of the log: the function called and, for the calls
\* that receive a roughness texture, that texture (<<>> otherwise)
Call(fn) == [fn |-> fn, roughness |-> <<>>]

CallWithRoughness(fn, t) == [fn |-> fn, roughness |-> <<t>>]

\* torch.clamp(roughnessTextures, 1e-20, 10.0), elementwise (line 150)
clampTexture(t) ==
    Tensor(t.shape,
           [b \in 1..Len(t.data) |-> [r \in 1..Len(t.data[b]) |->
               [c \in 1..Len(t.data[b][r]) |-> [k \in 1..Len(t.data[b][r][c]) |->
                   clamp(t.data[b][r][c][k], RoughnessMin, RoughnessMax)]]]])

\* the texture asserts of lines 136-138: rank 4, square at the model's
\* resolution, `channels` entries in the last axis
textureShapeOk(t, channels) ==
    /\ Dim(t) = 4
    /\ t.shape[2] = getTextureResolution
    /\ t.shape[3] = getTextureResolution
    /\ LastDim(t) = channels

(***************************************************************************)
(* Pipeline.render.  `world` holds what the collaborators return during    *)
(* the call: cameraVerts (camera.transformVertices of the morphable        *)
(* model's shape), normals (meshNormals.computeNormals), diffuse and       *)
(* specular (generateTextureFromAlbedo), viewerOk (whether the point-cloud *)
(* viewer returns).  The result carries the calls made, in order.          *)
(***************************************************************************)
render(cameraVerts, diffuseTextures, specularTextures, roughnessTextures, renderAlbedo, vertexBased, world) ==
    LET fromModel == cameraVerts = None
        \* lines 116-118
        calls1 == IF fromModel
                  THEN <<Call("computeShapeAlbedo"), Call("transformVertices")>>
                  ELSE <<>>
        cv == IF fromModel THEN world.cameraVerts ELSE cameraVerts[1]
        \* line 121
        calls2 == Append(calls1, Call("computeNormals"))
        normals == world.normals
        \* lines 123-127
        calls3 == IF diffuseTextures = None
                  THEN Append(calls2, Call("generateTextureFromAlbedo")) ELSE calls2
        diffuse == IF diffuseTextures = None THEN world.diffuse ELSE diffuseTextures[1]
        calls4 == IF specularTextures = None
                  THEN Append(calls3, Call("generateTextureFromAlbedo")) ELSE calls3
        specular == IF specularTextures = None THEN world.specular ELSE specularTextures[1]
        \* lines 129-130
        roughness == IF roughnessTextures = None THEN params.vRoughness
                     ELSE roughnessTextures[1]
        \* line 132
        calls5 == Append(calls4, Call("toEnvMap"))
        envMaps == Tensor(<<params.vShCoeffs.shape[1], config.envMapRes, config.envMapRes, 3>>, <<>>)
        raised(error, calls) == [outcome |-> "raised", error |-> error, calls |-> calls]
    IN  IF fromModel /\ ~params.allocated
        THEN raised("AttributeError: vShapeCoeff", <<>>)
        ELSE IF diffuseTextures = None /\ ~fromModel
        THEN raised("UnboundLocalError: diffAlbedo", calls2)
        ELSE IF specularTextures = None /\ ~fromModel
        THEN raised("UnboundLocalError: specAlbedo", calls3)
        ELSE IF roughnessTextures = None /\ ~params.allocated
        THEN raised("AttributeError: vRoughness", calls4)
        ELSE IF ~params.allocated
        THEN raised("AttributeError: vShCoeffs", calls4)
        \* lines 134-140
        ELSE IF ~(Dim(envMaps) = 4 /\ LastDim(envMaps) = 3)
        THEN raised("AssertionError: line 134", calls5)
        ELSE IF ~(Dim(cv) = 3 /\ LastDim(cv) = 3)
        THEN raised("AssertionError: line 135", calls5)
        ELSE IF ~textureShapeOk(diffuse, 3)
        THEN raised("AssertionError: line 136", calls5)
        ELSE IF ~textureShapeOk(specular, 3)
        THEN raised("AssertionError: line 137", calls5)
        ELSE IF ~textureShapeOk(roughness, 1)
        THEN raised("AssertionError: line 138", calls5)
        ELSE IF cv.shape[1] # envMaps.shape[1]
        THEN raised("AssertionError: line 139", calls5)
        ELSE IF ~(diffuse.shape[1] = specular.shape[1] /\ specular.shape[1] = roughness.shape[1])
        THEN raised("AssertionError: line 140", calls5)
        ELSE IF vertexBased
        THEN \* lines 145-147
             LET calls6 == Append(calls5, CallWithRoughness("computeVertexColor", roughness))
                 colors == computeVertexColor(diffuse, specular, roughness, normals)
             IN  IF colors.outcome = "raised" THEN raised(colors.error, calls6)
                 ELSE LET img == computeVertexImage(params.vFocals, cv, colors.value,
                                                    TRUE, world.viewerOk)
                          calls7 == Append(calls6, Call("computeVertexImage")) \o
                                    [i \in 1..Len(img.calls) |-> Call(img.calls[i])]
                      IN  IF img.outcome = "raised"
                          THEN [outcome |-> "raised", error |-> img.error, calls |-> calls7,
                                cameraVerts |-> cv, vertexColors |-> colors.value]
                          ELSE [outcome |-> "returned", error |-> "", calls |-> calls7,
                                cameraVerts |-> cv, vertexColors |-> colors.value,
                                image |-> img.image]
        ELSE \* lines 150-154
             LET calls6 == Append(calls5, CallWithRoughness("buildScenes",
                                                            clampTexture(roughness)))
                 entry == IF renderAlbedo THEN "renderAlbedo" ELSE "render"
             IN  [outcome |-> "returned", error |-> "", calls |-> Append(calls6, Call(entry)),
                  cameraVerts |-> cv, image |-> [source |-> entry]]

(***************************************************************************)
(* Pipeline.landmarkLoss.                                                  *)
(***************************************************************************)
\* morphableModel.landmarksAssociation: the vertex of each of the K landmarks
\* (vertex indices from 1)
landmarksAssociation == [k \in 1..NumLandmarks |-> NumVertices - ((k - 1) % NumVertices)]

\* line 177-178: focal * headPoint.xy / headPoint.z + cameraCenter
projectPoint(focal, headPoint, cameraCenter) ==
    [k \in 1..2 |-> RatAdd(RatDiv(RatMul(ToRat(focal), ToRat(headPoint[k])), ToRat(headPoint[3])),
                           ToRat(cameraCenter[k]))]

\* torch.norm(p - q, 2, dim=-1).pow(2) of two 2D points
squaredDistance(p, q) ==
    LET dx == RatSub(p[1], q[1])
        dy == RatSub(p[2], q[2])
    IN  RatAdd(RatMul(dx, dx), RatMul(dy, dy))

\* a variant of the loss that sums the squared distances without averaging
sumLoss(projPoints, landmarks) ==
    LET n == Len(projPoints)
        K == Len(projPoints[1])
    IN  RatSumSeq([i \in 1..(n * K) |->
            squaredDistance(projPoints[((i - 1) \div K) + 1][((i - 1) % K) + 1],
                            [c \in 1..2 |-> ToRat(landmarks.data[((i - 1) \div K) + 1][((i - 1) % K) + 1][c])])])

\* the mean of line 179 over the batch and the landmarks
meanLoss(projPoints, landmarks) ==
    LET n == Len(projPoints)
        K == Len(projPoints[1])
        flat == [i \in 1..(n * K) |->
                    squaredDistance(projPoints[((i - 1) \div K) + 1][((i - 1) % K) + 1],
                                    [c \in 1..2 |-> ToRat(landmarks.data[((i - 1) \div K) + 1][((i - 1) % K) + 1][c])])]
    IN  RatDiv(RatSumSeq(flat), ToRat(n * K))

\* Pipeline.landmarkLoss(cameraVertices, landmarks, focals, cameraCenters,
\* debugDir); debugOk is whether the image writers of lines 181-183 return.
\* The result carries the steps taken on the inputs, in order.
landmarkLoss(cameraVertices, landmarks, focals, cameraCenters, debugDir, debugOk) ==
    LET raised(error, calls) == [outcome |-> "raised", error |-> error, calls |-> calls]
        n == cameraVertices.shape[1]
        V == cameraVertices.shape[2]
        K == Len(landmarksAssociation)
        \* line 174
        headPoints == [b \in 1..n |-> [k \in 1..K |->
                          cameraVertices.data[b][landmarksAssociation[k]]]]
        calls1 == <<Call("headPoints")>>
        \* lines 177-178
        projPoints == [b \in 1..n |-> [k \in 1..K |->
                          projectPoint(focals.data[b], headPoints[b][k], cameraCenters.data[b])]]
        calls2 == Append(calls1, Call("projPoints"))
        debugCalls == IF debugDir # None
                      THEN <<Call("saveLandmarksVerticesProjections"), Call("imwrite")>>
                      ELSE <<>>
    IN  IF ~(Dim(cameraVertices) = 3 /\ LastDim(cameraVertices) = 3)
        THEN raised("AssertionError: line 168", <<>>)
        ELSE IF Dim(focals) # 1
        THEN raised("AssertionError: line 169", <<>>)
        ELSE IF ~(Dim(cameraCenters) = 2 /\ LastDim(cameraCenters) = 2)
        THEN raised("AssertionError: line 170", <<>>)
        ELSE IF ~(Dim(landmarks) = 3 /\ LastDim(landmarks) = 2)
        THEN raised("AssertionError: line 171", <<>>)
        ELSE IF ~(n = landmarks.shape[1] /\ n = focals.shape[1] /\ n = cameraCenters.shape[1])
        THEN raised("AssertionError: line 172", <<>>)
        ELSE IF \E k \in 1..K : landmarksAssociation[k] > V
        THEN raised("IndexError: line 174", <<>>)
        ELSE IF landmarks.shape[2] # K
        THEN raised("AssertionError: line 175", calls1)
        ELSE IF debugDir # None /\ ~debugOk
        THEN raised("debug writer", calls2 \o debugCalls)
        ELSE [outcome |-> "returned", error |-> "", calls |-> calls2 \o debugCalls,
              loss |-> meanLoss(projPoints, landmarks)]

(***************************************************************************)
(* Inputs.  The calls take their arguments from the small sets below.      *)
(***************************************************************************)
\* camera-space vertices <<x, y, z>>: two at the image centre at different
\* depths, one off-centre, one just left of the frustum, one with z = 0, one
\* on the frustum boundary (for focal length 1)
VertexSamples ==
    { <<0, 0, 1>>, <<0, 0, 2>>, <<3, -5, 1>>, <<-257, 0, 2>>, <<1, 1, 0>>, <<128, -128, 1>> }

VertexLists == [1..NumVertices -> VertexSamples]

\* a [n, V, 3] vertex tensor whose batch elements all are the list l
Batch(n, l) == Tensor(<<n, NumVertices, 3>>, [b \in 1..n |-> l])

\* what camera.transformVertices returns for the model's own shape
ModelVertexLists == { [v \in 1..NumVertices |-> s] : s \in { <<0, 0, 1>>, <<-257, 0, 2>> } }

\* vertex tensors of the wrong rank and of the wrong last dimension (the
\* entries of a tensor of the wrong rank are never read and are left out)
BadRankVerts == Tensor(<<NumVertices, 3>>, <<>>)

BadLastDimVerts ==
    Tensor(<<1, NumVertices, 2>>, [b \in 1..1 |-> [v \in 1..NumVertices |-> <<0, 0>>]])

\* what meshNormals.computeNormals returns for cv: one unit normal per vertex
NormalPool == << <<0, 0, 1>>, <<1, 0, 0>>, <<0, -1, 0>> >>

normalsOf(cv, offset) ==
    IF Dim(cv) = 3
    THEN Tensor(cv.shape, [b \in 1..cv.shape[1] |-> [v \in 1..cv.shape[2] |->
                               NormalPool[((offset + v) % Len(NormalPool)) + 1]]])
    ELSE Tensor(cv.shape, <<>>)

\* [nd, res, res, channels] textures: a colour gradient, white, a uniform
\* specular map, the uniform roughness 0.4
GradientTexture(nd, res, channels) ==
    Tensor(<<nd, res, res, channels>>,
           [d \in 1..nd |-> [r \in 1..res |-> [c \in 1..res |->
               [k \in 1..channels |-> Norm(((r + c + k) % 7) + 1, 8)]]]])

WhiteTexture(nd) ==
    Tensor(<<nd, TexRes, TexRes, 3>>,
           [d \in 1..nd |-> [r \in 1..TexRes |-> [c \in 1..TexRes |-> [k \in 1..3 |-> ToRat(1)]]]])

SpecularTexture(nd, res) ==
    Tensor(<<nd, res, res, 3>>,
           [d \in 1..nd |-> [r \in 1..res |-> [c \in 1..res |-> [k \in 1..3 |-> <<1, 2>>]]]])

RoughnessTexture(nd, channels) ==
    Tensor(<<nd, TexRes, TexRes, channels>>,
           [d \in 1..nd |-> [r \in 1..TexRes |-> [c \in 1..TexRes |->
               [k \in 1..channels |-> InitRoughness]]]])

\* roughness values below, at and above the clamp range: -1, 0, 11, 1e-21, 0.4
RoughnessPool == << <<-1, 0>>, <<0, 0>>, <<11, 0>>, <<1, -21>>, <<4, -1>> >>

WildRoughnessTexture ==
    Tensor(<<1, TexRes, TexRes, 1>>,
           [d \in 1..1 |-> [r \in 1..TexRes |-> [c \in 1..TexRes |->
               [k \in 1..1 |-> RoughnessPool[((r + 2 * c) % Len(RoughnessPool)) + 1]]]]])

\* <<diffuseTextures, specularTextures, roughnessTextures>>
GoodTextures ==
    { <<Some(GradientTexture(1, TexRes, 3)), Some(SpecularTexture(1, TexRes)), Some(RoughnessTexture(1, 1))>>,
      <<Some(WhiteTexture(1)), Some(SpecularTexture(1, TexRes)), Some(WildRoughnessTexture)>> }

TextureCases ==
    GoodTextures \cup
    { <<None, None, None>>,
      <<None, Some(SpecularTexture(1, TexRes)), Some(RoughnessTexture(1, 1))>>,
      <<Some(GradientTexture(1, TexRes, 3)), None, None>>,
      \* four colour channels; the wrong resolution; three roughness channels
      <<Some(GradientTexture(1, TexRes, 4)), Some(SpecularTexture(1, TexRes)), Some(RoughnessTexture(1, 1))>>,
      <<Some(GradientTexture(1, TexRes, 3)), Some(SpecularTexture(1, TexRes + 1)), Some(RoughnessTexture(1, 1))>>,
      <<Some(GradientTexture(1, TexRes, 3)), Some(SpecularTexture(1, TexRes)), Some(RoughnessTexture(1, 3))>>,
      \* the batch sizes of the textures disagree; they agree on 2
      <<Some(GradientTexture(2, TexRes, 3)), Some(SpecularTexture(1, TexRes)), Some(RoughnessTexture(1, 1))>>,
      <<Some(GradientTexture(2, TexRes, 3)), Some(SpecularTexture(2, TexRes)), Some(RoughnessTexture(2, 1))>> }

\* the vertex list with every vertex at <<0, 0, 1>>
CentreList == [v \in 1..NumVertices |-> <<0, 0, 1>>]

\* the inputs of render: a sweep of the vertex lists under the well-formed
\* textures on the vertex-based path, and a sweep of the texture cases and
\* flags under a few vertex tensors, supplied or left to the model.
\* modelList and normalOffset choose what the collaborators return, viewerOk
\* whether the viewer returns.
RenderInputs ==
    [cameraVerts : {Some(Batch(1, l)) : l \in VertexLists},
     textures : GoodTextures,
     renderAlbedo : {FALSE}, vertexBased : {TRUE},
     modelList : {CentreList}, normalOffset : {0, 1}, viewerOk : {TRUE}]
    \cup
    [cameraVerts : {Some(Batch(n, CentreList)) : n \in 1..MaxBatch}
                   \cup {Some(BadRankVerts), Some(BadLastDimVerts)},
     textures : TextureCases,
     renderAlbedo : BOOLEAN, vertexBased : {FALSE},
     modelList : {CentreList}, normalOffset : {0}, viewerOk : {TRUE}]
    \cup
    [cameraVerts : {Some(Batch(n, CentreList)) : n \in 1..MaxBatch}
                   \cup {Some(BadRankVerts), Some(BadLastDimVerts)},
     textures : TextureCases,
     renderAlbedo : {FALSE}, vertexBased : {TRUE},
     modelList : {CentreList}, normalOffset : {0}, viewerOk : BOOLEAN]
    \cup
    [cameraVerts : {None},
     textures : TextureCases,
     renderAlbedo : BOOLEAN, vertexBased : {FALSE},
     modelList : ModelVertexLists, normalOffset : {0}, viewerOk : {TRUE}]
    \cup
    [cameraVerts : {None},
     textures : TextureCases,
     renderAlbedo : {FALSE}, vertexBased : {TRUE},
     modelList : ModelVertexLists, normalOffset : {0}, viewerOk : BOOLEAN]

\* what the collaborators return during render(inp)
worldOf(inp) ==
    LET cv == IF inp.cameraVerts = None THEN Batch(params.n, inp.modelList)
              ELSE inp.cameraVerts[1]
        nShape == IF params.allocated THEN params.vAlbedoCoeff.shape[1] ELSE 1
    IN  [cameraVerts |-> cv,
         normals |-> normalsOf(cv, inp.normalOffset),
         diffuse |-> GradientTexture(nShape, getTextureResolution, 3),
         specular |-> SpecularTexture(nShape, getTextureResolution),
         viewerOk |-> inp.viewerOk]

\* landmark positions in pixels, and the camera centres tried
LandmarkPool == << <<2, 0>>, <<2, 0>>, <<0, 0>>, <<5, 1>> >>

LossVertexPool == << <<0, 0, 1>>, <<2, 0, 1>>, <<4, 0, 2>>, <<1, 1, 0>> >>

CameraCenters == { <<0, 0>>, <<3, 0>> }

\* the window of `count` entries of pool that starts after entry `offset`
Window(pool, offset, count) ==
    [i \in 1..count |-> pool[((offset + i - 1) % Len(pool)) + 1]]

\* well-formed inputs of landmarkLoss for batch size n
LossInputs ==
    { [cameraVertices |-> Batch(n, Window(LossVertexPool, vo, NumVertices)),
       landmarks |-> Tensor(<<n, NumLandmarks, 2>>,
                            [b \in 1..n |-> Window(LandmarkPool, lo, NumLandmarks)]),
       focals |-> Tensor(<<n>>, [b \in 1..n |-> f]),
       cameraCenters |-> Tensor(<<n, 2>>, [b \in 1..n |-> c]),
       debugDir |-> d, debugOk |-> ok] :
      n \in 1..MaxBatch, vo \in 0..(Len(LossVertexPool) - 1),
      lo \in 0..(Len(LandmarkPool) - 1), f \in CamFocalLengths, c \in CameraCenters,
      d \in {None}, ok \in {TRUE} }
    \cup
    { [cameraVertices |-> Batch(n, Window(LossVertexPool, 0, NumVertices)),
       landmarks |-> Tensor(<<n, NumLandmarks, 2>>,
                            [b \in 1..n |-> Window(LandmarkPool, lo, NumLandmarks)]),
       focals |-> Tensor(<<n>>, [b \in 1..n |-> 1]),
       cameraCenters |-> Tensor(<<n, 2>>, [b \in 1..n |-> <<0, 0>>]),
       debugDir |-> Some("debug"), debugOk |-> ok] :
      n \in 1..MaxBatch, lo \in 0..1, ok \in BOOLEAN }

\* inputs of landmarkLoss that break one shape precondition each
BadLossInputs ==
    LET good == [cameraVertices |-> Batch(1, Window(LossVertexPool, 0, NumVertices)),
                 landmarks |-> Tensor(<<1, NumLandmarks, 2>>,
                                      [b \in 1..1 |-> Window(LandmarkPool, 0, NumLandmarks)]),
                 focals |-> Tensor(<<1>>, <<1>>),
                 cameraCenters |-> Tensor(<<1, 2>>, << <<0, 0>> >>),
                 debugDir |-> None, debugOk |-> TRUE]
    IN  { [good EXCEPT !.cameraVertices = BadLastDimVerts],
          [good EXCEPT !.cameraVertices = BadRankVerts],
          [good EXCEPT !.focals = Tensor(<<1, 1>>, <<>>)],
          [good EXCEPT !.cameraCenters = Tensor(<<1, 3>>, << <<0, 0, 0>> >>)],
          [good EXCEPT !.landmarks = Tensor(<<1, NumLandmarks, 3>>,
                                            [b \in 1..1 |-> [k \in 1..NumLandmarks |-> <<0, 0, 0>>]])],
          [good EXCEPT !.landmarks = Tensor(<<2, NumLandmarks, 2>>,
                                            [b \in 1..2 |-> Window(LandmarkPool, 0, NumLandmarks)])],
          [good EXCEPT !.landmarks = Tensor(<<1, NumLandmarks + 1, 2>>,
                                            [b \in 1..1 |-> Window(LandmarkPool, 0, NumLandmarks + 1)])] }

(***************************************************************************)
(* The state machine.                                                      *)
(***************************************************************************)
NoCall == [op |-> "none", outcome |-> "none", calls |-> <<>>]

Init ==
    /\ config \in Configs
    /\ sharedIdentity = FALSE
    /\ params = Unallocated
    /\ last = NoCall

\* Pipeline.initSceneParameters(n, sharedIdentity)
initSceneParameters(n, shared) ==
    /\ last = NoCall
    /\ IF n <= 0
       THEN UNCHANGED <<sharedIdentity, params>>
       ELSE /\ sharedIdentity' = shared
            /\ params' = AllocatedParams(n, shared)
    /\ last' = [op |-> "initSceneParameters", outcome |-> "returned", calls |-> <<>>,
                n |-> n, sharedIdentity |-> shared]
    /\ UNCHANGED config

\* the optimisation loop overwrites the SH coefficients between calls
\* (here: with zeros)
optimizerStep ==
    /\ last = NoCall
    /\ params.allocated
    /\ \E b \in 1..params.n, j \in 1..(ShBands * ShBands) :
           params.vShCoeffs.data[b][j] # <<0, 0, 0>>
    /\ params' = [params EXCEPT !.vShCoeffs.data =
                     [b \in 1..params.n |-> [j \in 1..(ShBands * ShBands) |-> <<0, 0, 0>>]]]
    /\ UNCHANGED <<config, sharedIdentity, last>>

\* a call of Pipeline.render
Render(inp) ==
    /\ last = NoCall
    /\ last' = [op |-> "render", input |-> inp,
                result |-> render(inp.cameraVerts, inp.textures[1], inp.textures[2],
                                  inp.textures[3], inp.renderAlbedo, inp.vertexBased,
                                  worldOf(inp))]
    /\ UNCHANGED <<config, sharedIdentity, params>>

\* a call of Pipeline.landmarkLoss
LandmarkLoss(inp) ==
    /\ last = NoCall
    /\ last' = [op |-> "landmarkLoss", input |-> inp,
                result |-> landmarkLoss(inp.cameraVertices, inp.landmarks, inp.focals,
                                        inp.cameraCenters, inp.debugDir, inp.debugOk)]
    /\ UNCHANGED <<config, sharedIdentity, params>>

\* the caller is done with the result of the call
Return ==
    /\ last # NoCall
    /\ last' = NoCall
    /\ UNCHANGED <<config, sharedIdentity, params>>

Next ==
    \/ \E n \in 0..MaxBatch, shared \in BOOLEAN : initSceneParameters(n, shared)
    \/ optimizerStep
    \/ \E inp \in RenderInputs : Render(inp)
    \/ \E inp \in LossInputs \cup BadLossInputs : LandmarkLoss(inp)
    \/ Return

Spec == Init /\ [][Next]_vars

(***************************************************************************)
(* Properties.  The definitions below read the call held in `last`.        *)
(***************************************************************************)
\* the names of the calls the held call made
CallNames == {last.result.calls[i].fn : i \in 1..Len(last.result.calls)}

\* the held call is a render on the vertex-based path
VertexRender == last.op = "render" /\ last.input.vertexBased

\* ... that reached computeVertexImage
ReachedVertexImage == VertexRender /\ "computeVertexImage" \in CallNames

\* ... and returned an image built from one RGB colour per vertex
VertexImage ==
    /\ ReachedVertexImage
    /\ last.result.outcome = "returned"
    /\ last.result.vertexColors.shape[1] = 1

\* the vertices of the held vertex-based render, their normalised device
\* coordinates, and the pixel <<y, x>> and colour of each
LastVertices == last.result.cameraVerts.data[1]

LastNdc(v) ==
    toClipSpace(perspectiveProjMatrix(fovOf(params.vFocals.data[1]), Norm(Width, Height),
                                      <<NearNum, NearDen>>, ToRat(Far)),
                LastVertices[v])

Culled(v) == ~(AbsLeqOne(LastNdc(v)[1]) /\ AbsLeqOne(LastNdc(v)[2]))

PixelOf(v) ==
    LET ndc == LastNdc(v)
    IN  << Trunc(RatMul(RatAdd(ndc[2], ToRat(1)), ToRat(Height \div 2))),
           Trunc(RatMul(RatAdd(ndc[1], ToRat(1)), ToRat(Width \div 2))) >>

ColorOf(v) == meanOverRows(last.result.vertexColors, 1, v)

RECURSIVE SumColors(_)
SumColors(vs) ==
    IF vs = {} THEN Zero3
    ELSE LET v == CHOOSE w \in vs : TRUE
         IN  AddRGB(ColorOf(v), SumColors(vs \ {v}))

\* the surviving vertices whose truncated screen coordinates are the pixel p
VerticesAt(p) == {v \in 1..NumVertices : ~Culled(v) /\ PixelOf(v) = p}

OnGrid(p) == 0 <= p[1] /\ p[1] < Height /\ 0 <= p[2] /\ p[2] < Width

\* the pixels that hold a value or are the target of a vertex, and the
\* corners and the centre of the buffer; every other pixel is zero in the
\* image and has no vertex
PixelsOfInterest ==
    {p \in DOMAIN last.result.image.rgb \cup {PixelOf(v) : v \in {w \in 1..NumVertices : ~Culled(w)}}
           \cup { <<0, 0>>, <<0, Width - 1>>, <<Height - 1, 0>>, <<Height - 1, Width - 1>>,
                  <<Height \div 2, Width \div 2>> } : OnGrid(p)}

\* C1 (as claimed): for every batch size n >= 1, a vertex-based render of the
\* scene parameters that initSceneParameters(n) allocated returns an image of
\* shape [n, 256, 256, 4] whose alpha channel is 1.0 everywhere (stated for
\* the calls whose viewer returns).
C1_ImageShapeIsBatchSize ==
    (/\ VertexRender
     /\ params.allocated
     /\ last.input.cameraVerts = None
     /\ last.input.textures = <<None, None, None>>
     /\ last.input.viewerOk)
    => /\ last.result.outcome = "returned"
       /\ last.result.image.shape = <<params.n, Height, Width, 4>>
       /\ last.result.image.alpha = ToRat(1)

\* C2: in the image of a vertex-based render, the RGB value of every pixel is
\* the sum of the colours of the surviving vertices whose truncated screen
\* coordinates are that pixel, whatever their depth and order.
C2_AdditiveAccumulation ==
    VertexImage =>
        /\ \A p \in DOMAIN last.result.image.rgb : OnGrid(p)
        /\ \A p \in PixelsOfInterest :
               Pixel(last.result.image, p[1], p[2]) = SumColors(VerticesAt(p))

\* C2 happens: two vertices at different depths share a pixel, each with a
\* colour of its own, and the pixel holds neither colour alone.
C2_Witness ==
    /\ VertexImage
    /\ \E v, w \in 1..NumVertices :
          /\ v # w /\ ~Culled(v) /\ ~Culled(w)
          /\ PixelOf(v) = PixelOf(w) /\ OnGrid(PixelOf(v))
          /\ LastVertices[v][3] # LastVertices[w][3]
          /\ ColorOf(v) # Zero3 /\ ColorOf(w) # Zero3 /\ ColorOf(v) # ColorOf(w)
          /\ Pixel(last.result.image, PixelOf(v)[1], PixelOf(v)[2]) \notin {ColorOf(v), ColorOf(w)}

\* the tensors of the held render without vertex v
WithoutVertex(seq, v) == [i \in 1..(Len(seq) - 1) |-> IF i < v THEN seq[i] ELSE seq[i + 1]]

VerticesWithout(v) ==
    Tensor(<<1, NumVertices - 1, 3>>, <<WithoutVertex(LastVertices, v)>>)

ColorsWithout(v) ==
    LET t == last.result.vertexColors
    IN  Tensor(<<1, t.shape[2], NumVertices - 1, 3>>,
               <<[r \in 1..t.shape[2] |-> WithoutVertex(t.data[1][r], v)]>>)

\* C3: a vertex whose normalised x or y lies outside [-1, 1] contributes
\* nothing: the image is the one computeVertexImage produces from the same
\* vertices and colours with that vertex removed.
C3_CulledVertexContributesNothing ==
    VertexImage =>
        \A v \in 1..NumVertices :
            Culled(v) =>
                LET other == computeVertexImage(params.vFocals, VerticesWithout(v),
                                                ColorsWithout(v), FALSE, TRUE)
                IN  other.outcome = "returned" /\ other.image = last.result.image

\* C3 happens: a culled vertex with a colour, just outside the frustum, beside
\* a surviving vertex
C3_Witness ==
    /\ VertexImage
    /\ \E v, w \in 1..NumVertices :
          /\ Culled(v) /\ ColorOf(v) # Zero3 /\ IsFinite(LastNdc(v)[1])
          /\ OnGrid(PixelOf(v))
          /\ ~Culled(w) /\ last.result.image.rgb # <<>>

\* C4 (as claimed): when every vertex is culled, the vertex-based render
\* returns, without raising, an image whose RGB channels are zero everywhere.
C4_AllCulledReturnsBlackImage ==
    (/\ ReachedVertexImage
     /\ params.n = 1
     /\ last.result.vertexColors.shape[1] = 1
     /\ \A v \in 1..NumVertices : Culled(v))
    => /\ last.result.outcome = "returned"
       /\ last.result.image.rgb = <<>>

\* the roughness entries of a texture handed to a call
RoughnessEntries(t) ==
    {t.data[b][r][c][k] : b \in 1..t.shape[1], r \in 1..t.shape[2],
                          c \in 1..t.shape[3], k \in 1..t.shape[4]}

InClampRange(x) == ~DecLess(x, RoughnessMin) /\ ~DecLess(RoughnessMax, x)

\* C5 (as claimed): on every path of render the roughness texture handed to
\* renderer.buildScenes or to computeVertexColor holds only values in
\* [1e-20, 10.0].
C5_RoughnessClampedOnEveryPath ==
    last.op = "render" =>
        \A i \in 1..Len(last.result.calls) :
            last.result.calls[i].roughness # <<>> =>
                \A x \in RoughnessEntries(last.result.calls[i].roughness[1]) : InClampRange(x)

\* C6: after initSceneParameters(n, sharedIdentity), n >= 1, the leading
\* dimension of shapeCoeff, albedoCoeff and roughness is 1 if sharedIdentity
\* and n otherwise, that of expCoeff, rotation, translation, focalLength and
\* shCoeffs is n, and the pipeline's sharedIdentity flag is the argument.
C6_SharedIdentityDimensions ==
    (last.op = "initSceneParameters" /\ last.n >= 1) =>
        LET nShape == IF last.sharedIdentity THEN 1 ELSE last.n
        IN  /\ params.allocated
            /\ params.vShapeCoeff.shape[1] = nShape
            /\ params.vAlbedoCoeff.shape[1] = nShape
            /\ params.vRoughness.shape[1] = nShape
            /\ params.vExpCoeff.shape[1] = last.n
            /\ params.vRotation.shape[1] = last.n
            /\ params.vTranslation.shape[1] = last.n
            /\ params.vFocals.shape[1] = last.n
            /\ params.vShCoeffs.shape[1] = last.n
            /\ sharedIdentity = last.sharedIdentity

\* C6 happens: a shared identity over a batch of more than one
C6_Witness ==
    /\ last.op = "initSceneParameters" /\ last.n >= 2 /\ last.sharedIdentity
    /\ params.vShapeCoeff.shape[1] = 1
    /\ params.vExpCoeff.shape[1] = last.n

\* an argument of the held render violates a shape precondition: a wrong
\* rank or last dimension of the vertices, a wrong rank, resolution or channel
\* count of a texture, or textures whose batch sizes disagree
RenderShapeViolation ==
    LET inp == last.input
        channels == <<3, 3, 1>>
        supplied == {i \in 1..3 : inp.textures[i] # None}
    IN  \/ /\ inp.cameraVerts # None
           /\ ~(Dim(inp.cameraVerts[1]) = 3 /\ LastDim(inp.cameraVerts[1]) = 3)
        \/ \E i \in supplied : ~textureShapeOk(inp.textures[i][1], channels[i])
        \/ \E i, j \in supplied : inp.textures[i][1].shape[1] # inp.textures[j][1].shape[1]

\* an argument of the held landmarkLoss violates a shape precondition
LossShapeViolation ==
    LET inp == last.input
    IN  \/ ~(Dim(inp.cameraVertices) = 3 /\ LastDim(inp.cameraVertices) = 3)
        \/ Dim(inp.focals) # 1
        \/ ~(Dim(inp.cameraCenters) = 2 /\ LastDim(inp.cameraCenters) = 2)
        \/ ~(Dim(inp.landmarks) = 3 /\ LastDim(inp.landmarks) = 2)
        \/ \E t \in {inp.landmarks, inp.focals, inp.cameraCenters} :
               t.shape[1] # inp.cameraVertices.shape[1]
        \/ inp.landmarks.shape[2] # Len(landmarksAssociation)

\* C7 (as claimed): a render or landmarkLoss whose input violates a shape
\* precondition fails, and fails before any computation or collaborator
\* operation has been performed on the inputs (stated, for render, for the
\* calls on allocated scene parameters that supply every texture).
C7_ShapeViolationFailsBeforeComputation ==
    (\/ /\ last.op = "render" /\ params.allocated
        /\ \A i \in 1..3 : last.input.textures[i] # None
        /\ RenderShapeViolation
     \/ last.op = "landmarkLoss" /\ LossShapeViolation)
    => /\ last.result.outcome = "raised"
       /\ last.result.calls = <<>>

\* the debug collaborators: the point-cloud viewer and the image writers
DebugFns == {"displayTensorColorAndNormals", "saveLandmarksVerticesProjections", "imwrite"}

\* the outcome of a call: its result without the log of the steps
OutcomeOf(result) == [result EXCEPT !.calls = <<>>]

\* C8 (as claimed): render and landmarkLoss invoke a debug collaborator only
\* when the caller supplied a debug flag or directory (render takes none),
\* and the outcome of the call is the one with a collaborator that does not
\* fail, or with debugging off.
C8_DebugNeverChangesOutcome ==
    /\ last.op = "render" =>
          /\ CallNames \cap DebugFns = {}
          /\ OutcomeOf(last.result) =
                OutcomeOf(render(last.input.cameraVerts, last.input.textures[1],
                                 last.input.textures[2], last.input.textures[3],
                                 last.input.renderAlbedo, last.input.vertexBased,
                                 [worldOf(last.input) EXCEPT !.viewerOk = TRUE]))
    /\ last.op = "landmarkLoss" =>
          /\ CallNames \cap DebugFns # {} => last.input.debugDir # None
          /\ OutcomeOf(last.result) =
                OutcomeOf(landmarkLoss(last.input.cameraVertices, last.input.landmarks,
                                       last.input.focals, last.input.cameraCenters,
                                       None, TRUE))

\* the held landmarkLoss returned a loss
LossReturned == last.op = "landmarkLoss" /\ last.result.outcome = "returned"

\* the pinhole projection focal * x / z + cameraCenter of the vertex of
\* landmark k in batch element b, minus the supplied landmark
LandmarkOffset(b, k) ==
    LET inp == last.input
        vertex == inp.cameraVertices.data[b][landmarksAssociation[k]]
    IN  [c \in 1..2 |->
            RatSub(RatAdd(RatDiv(RatMul(ToRat(inp.focals.data[b]), ToRat(vertex[c])),
                                 ToRat(vertex[3])),
                          ToRat(inp.cameraCenters.data[b][c])),
                   ToRat(inp.landmarks.data[b][k][c]))]

LandmarkIndices ==
    {<<b, k>> : b \in 1..last.input.cameraVertices.shape[1], k \in 1..NumLandmarks}

\* C9: landmarkLoss returns 0 when every projected point is its landmark, and
\* delta squared when every projected point is its landmark plus (delta, 0).
C9_LossOfUniformOffset ==
    LossReturned =>
        /\ (\A i \in LandmarkIndices : LandmarkOffset(i[1], i[2]) = <<ToRat(0), ToRat(0)>>)
               => last.result.loss = ToRat(0)
        /\ LET delta == LandmarkOffset(1, 1)[1]
           IN  (\A i \in LandmarkIndices : LandmarkOffset(i[1], i[2]) = <<delta, ToRat(0)>>)
                   => last.result.loss = RatMul(delta, delta)

\* C9 happens: more than one landmark, all off by the same non-zero
\* (delta, 0)
C9_Witness ==
    /\ LossReturned
    /\ Cardinality(LandmarkIndices) >= 2
    /\ LET delta == LandmarkOffset(1, 1)[1]
       IN  /\ delta # ToRat(0) /\ IsFinite(delta)
           /\ \A i \in LandmarkIndices : LandmarkOffset(i[1], i[2]) = <<delta, ToRat(0)>>
           /\ last.result.loss = RatMul(delta, delta)

\* every SH coefficient of the scene is zero
ZeroShCoeffs ==
    /\ params.allocated
    /\ \A b \in 1..params.vShCoeffs.shape[1], j \in 1..params.vShCoeffs.shape[2], c \in 1..3 :
           params.vShCoeffs.data[b][j][c] = 0

\* C10 (as claimed): vertex shading takes its lighting from the SH
\* coefficients of the scene: when they are all zero, the shaded colour of
\* every vertex is zero in every channel, whatever the normals.
C10_ZeroShCoeffsShadeToZero ==
    (ReachedVertexImage /\ ZeroShCoeffs) =>
        LET t == last.result.vertexColors
        IN  \A d \in 1..t.shape[1], r \in 1..t.shape[2], v \in 1..t.shape[3], ch \in 1..3 :
                t.data[d][r][v][ch] = ToRat(0)

\* the image computeVertexImage produces from the vertices and colours of the
\* held render without vertex v
ImageWithout(v) ==
    computeVertexImage(params.vFocals, VerticesWithout(v), ColorsWithout(v), FALSE, TRUE)

CentrePixel == <<Height \div 2, Width \div 2>>

\* the held image is the image without vertex v plus the colour of v at the
\* pixel p, and nothing anywhere else
AddsOnlyAt(v, p) ==
    LET other == ImageWithout(v)
    IN  /\ other.outcome = "returned"
        /\ \A q \in DOMAIN last.result.image.rgb \cup DOMAIN other.image.rgb \cup {p} :
               Pixel(last.result.image, q[1], q[2]) =
                   IF q = p THEN AddRGB(Pixel(other.image, q[1], q[2]), ColorOf(v))
                   ELSE Pixel(other.image, q[1], q[2])

\* C11: a vertex at camera-space (0, 0, d), d > 0, is drawn at the centre
\* pixel (x = 128, y = 128) for every focal length: its colour is added there
\* and to no other pixel.
C11_CentreVertexAtCentrePixel ==
    VertexImage =>
        \A v \in 1..NumVertices :
            (LastVertices[v][1] = 0 /\ LastVertices[v][2] = 0 /\ LastVertices[v][3] > 0)
                => CentrePixel = <<128, 128>> /\ AddsOnlyAt(v, CentrePixel)

\* C11 happens: a coloured vertex on the optical axis beside a vertex off it,
\* and the centre pixel holds a colour
C11_Witness ==
    /\ VertexImage
    /\ \E v, w \in 1..NumVertices :
          /\ LastVertices[v][1] = 0 /\ LastVertices[v][2] = 0 /\ LastVertices[v][3] > 0
          /\ ColorOf(v) # Zero3
          /\ LastVertices[w][1] # 0 /\ ~Culled(w)
          /\ Pixel(last.result.image, 128, 128) # Zero3

\* C12 (as claimed): every vertex that survives the frustum cull, the boundary
\* values -1 and 1 included, has a pixel with 0 <= x < 256 and 0 <= y < 256
\* and its colour is added to that pixel and no other; the pixel-bounds check
\* drops none.
C12_SurvivorsAreAccumulated ==
    VertexImage =>
        \A v \in 1..NumVertices :
            ~Culled(v) => OnGrid(PixelOf(v)) /\ AddsOnlyAt(v, PixelOf(v))

\* the arguments the held render was given are well formed and agree with a
\* scene of one frame
SuppliedInputsValid ==
    /\ params.allocated /\ params.n = 1
    /\ ~RenderShapeViolation
    /\ last.input.cameraVerts # None => last.input.cameraVerts[1].shape[1] = 1
    /\ \A i \in 1..3 :
           last.input.textures[i] # None => last.input.textures[i][1].shape[1] = 1

\* C13 (as claimed): render completes for every combination of omitted
\* optional inputs, each omitted input being derived from the scene
\* parameters (stated for the ray-traced path).
C13_AnyOmittedInputIsDerived ==
    (last.op = "render" /\ ~last.input.vertexBased /\ SuppliedInputsValid)
        => last.result.outcome = "returned"

====
